---- MODULE Spec2Model ----
(***************************************************************************)
(* Model of the RP2350 UART echo driver: the UartController of uart.rs,    *)
(* the constants of config.rs and the read/process/write loop of main.rs.  *)
(*                                                                         *)
(* Four specifications share the variables:                                *)
(*   Spec      the program of main.rs, from construction of the controller *)
(*   SpecFn    process_char applied to a controller whose counter is drawn *)
(*             from sample values over the whole u64 range                 *)
(*   SpecApi   two controllers driven through the public API, as the unit  *)
(*             tests of uart.rs drive them                                 *)
(*   SpecBaud  the baud-rate configuration                                 *)
(***************************************************************************)
EXTENDS Integers, Sequences, FiniteSets

(***************************************************************************)
(* Bounds of the model.                                                    *)
(***************************************************************************)
\* process_char calls made on one controller in SpecFn and SpecApi
MaxCalls == 2
\* read attempts of the main loop in Spec
MaxReads == 3
\* half-width of the window of rates tried around each baud-rate limit
BaudWindow == 10

(***************************************************************************)
(* u8: the received character.                                             *)
(***************************************************************************)
Byte == 0..255

\* Input bytes of the specifications that run several steps on two
\* controllers or keep logs: one or two of every kind process_char
\* distinguishes (dropped, backspace, control, punctuation, digit, letter,
\* delete, above ASCII).
SampleBytes == {0, 8, 10, 32, 57, 65, 127, 255}

(***************************************************************************)
(* u64: four 16-bit limbs, most significant first, so that the counter     *)
(* keeps its 64 bits.                                                      *)
(***************************************************************************)
LimbBase == 2 ^ 16

Limbs == 1..4

U64_ZERO == <<0, 0, 0, 0>>

U64_MAX == <<LimbBase - 1, LimbBase - 1, LimbBase - 1, LimbBase - 1>>

\* x + 1 modulo 2^64
WrappingInc(x) ==
    LET free == {i \in Limbs : x[i] < LimbBase - 1}
    IN  IF free = {}
        THEN U64_ZERO
        ELSE LET top == CHOOSE i \in free : \A j \in free : j <= i
             IN  [j \in Limbs |->
                     IF j < top THEN x[j] ELSE IF j = top THEN x[j] + 1 ELSE 0]

(***************************************************************************)
(* config.rs                                                               *)
(***************************************************************************)
\* UART_BAUD_RATE with a digit too many.
UART_BAUD_RATE_typo == 115200 * 10

UART_BAUD_RATE == 115200

BACKSPACE == 8

DELETE == 127

\* BACKSPACE_SEQ without its closing backspace.
BACKSPACE_SEQ_short == <<8, 32>>

BACKSPACE_SEQ == <<8, 32, 8>>

(***************************************************************************)
(* uart.rs: UartController                                                 *)
(***************************************************************************)
\* new() starting the counter at one.
new_from_one == [echo_count |-> <<0, 0, 0, 1>>]

new == [echo_count |-> U64_ZERO]

default == new

echo_count(self) == self.echo_count

\* CHARS with b'1' typed for b'l'.
CHARS_typo ==
    <<65, 66, 67, 68, 69, 70, 71, 72, 73, 74, 75, 76,
      77, 78, 79, 80, 81, 82, 83, 84, 85, 86, 87, 88,
      89, 90, 97, 98, 99, 100, 101, 102, 103, 104, 105, 106,
      107, 49, 109, 110, 111, 112, 113, 114, 115, 116, 117, 118,
      119, 120, 121, 122, 48, 49, 50, 51, 52, 53, 54, 55,
      56, 57>>

\* static CHARS: [u8; 62]
CHARS ==
    <<65, 66, 67, 68, 69, 70, 71, 72, 73, 74, 75, 76,
      77, 78, 79, 80, 81, 82, 83, 84, 85, 86, 87, 88,
      89, 90, 97, 98, 99, 100, 101, 102, 103, 104, 105, 106,
      107, 108, 109, 110, 111, 112, 113, 114, 115, 116, 117, 118,
      119, 120, 121, 122, 48, 49, 50, 51, 52, 53, 54, 55,
      56, 57>>

\* The pattern of the first match arm: b'A'..=b'Z' | b'a'..=b'z' | b'0'..=b'9'
IsAlnum(ch) == ch \in (65..90) \cup (97..122) \cup (48..57)

\* CHARS.iter().position(|&c| c == ch): Some(zero-based index of the first
\* match) or None.
Position(table, ch) ==
    LET hits == {i \in 1..Len(table) : table[i] = ch}
    IN  IF hits = {}
        THEN [some |-> FALSE, idx |-> 0]
        ELSE [some |-> TRUE,
              idx |-> (CHOOSE i \in hits : \A j \in hits : i <= j) - 1]

\* &table[lo..hi]: panics when the range is not within the table.
Slice(table, lo, hi) ==
    IF lo <= hi /\ hi <= Len(table)
    THEN [panic |-> "none", out |-> SubSeq(table, lo + 1, hi)]
    ELSE [panic |-> "slice", out |-> <<>>]

\* The first arm's body: position(..).unwrap(), then &CHARS[idx..idx + 1].
AlnumArm(ch) ==
    LET p == Position(CHARS, ch)
    IN  IF ~p.some
        THEN [panic |-> "unwrap", out |-> <<>>]
        ELSE Slice(CHARS, p.idx, p.idx + 1)

\* Arms with the literal of the b'\'' arm mistyped as b"\"".
Arms_typo ==
    << <<32, <<32>>>>, <<33, <<33>>>>, <<34, <<34>>>>, <<35, <<35>>>>,
       <<36, <<36>>>>, <<37, <<37>>>>, <<38, <<38>>>>, <<39, <<34>>>>,
       <<40, <<40>>>>, <<41, <<41>>>>, <<42, <<42>>>>, <<43, <<43>>>>,
       <<44, <<44>>>>, <<45, <<45>>>>, <<46, <<46>>>>, <<47, <<47>>>>,
       <<58, <<58>>>>, <<59, <<59>>>>, <<60, <<60>>>>, <<61, <<61>>>>,
       <<62, <<62>>>>, <<63, <<63>>>>, <<64, <<64>>>>, <<91, <<91>>>>,
       <<92, <<92>>>>, <<93, <<93>>>>, <<94, <<94>>>>, <<95, <<95>>>>,
       <<96, <<96>>>>, <<123, <<123>>>>, <<124, <<124>>>>, <<125, <<125>>>>,
       <<126, <<126>>>>, <<10, <<10>>>>, <<13, <<13>>>>, <<9, <<9>>>> >>

\* The single-character arms, in source order: <<pattern, literal returned>>.
Arms ==
    << <<32, <<32>>>>, <<33, <<33>>>>, <<34, <<34>>>>, <<35, <<35>>>>,
       <<36, <<36>>>>, <<37, <<37>>>>, <<38, <<38>>>>, <<39, <<39>>>>,
       <<40, <<40>>>>, <<41, <<41>>>>, <<42, <<42>>>>, <<43, <<43>>>>,
       <<44, <<44>>>>, <<45, <<45>>>>, <<46, <<46>>>>, <<47, <<47>>>>,
       <<58, <<58>>>>, <<59, <<59>>>>, <<60, <<60>>>>, <<61, <<61>>>>,
       <<62, <<62>>>>, <<63, <<63>>>>, <<64, <<64>>>>, <<91, <<91>>>>,
       <<92, <<92>>>>, <<93, <<93>>>>, <<94, <<94>>>>, <<95, <<95>>>>,
       <<96, <<96>>>>, <<123, <<123>>>>, <<124, <<124>>>>, <<125, <<125>>>>,
       <<126, <<126>>>>, <<10, <<10>>>>, <<13, <<13>>>>, <<9, <<9>>>> >>

\* process_char without classification: every byte is echoed as it came.
MatchCh_echo_all(ch) == [panic |-> "none", out |-> <<ch>>]

\* match ch { .. }: the first arm whose pattern matches; `_ => b""` last.
MatchCh(ch) ==
    IF IsAlnum(ch)
    THEN AlnumArm(ch)
    ELSE LET hits == {i \in 1..Len(Arms) : Arms[i][1] = ch}
         IN  IF hits = {}
             THEN [panic |-> "none", out |-> <<>>]
             ELSE [panic |-> "none",
                   out |-> Arms[CHOOSE i \in hits : \A j \in hits : i <= j][2]]

\* process_char answering a backspace with the erase sequence only when
\* something was counted before it.
process_char_erase_if_any(self, ch, checks) ==
    IF checks /\ self.echo_count = U64_MAX
    THEN [panic |-> "overflow", self |-> self, out |-> <<>>]
    ELSE LET counted == [self EXCEPT !.echo_count = WrappingInc(@)]
             r == IF ch = BACKSPACE \/ ch = DELETE
                  THEN [panic |-> "none",
                        out |-> IF self.echo_count = U64_ZERO
                                THEN <<>>
                                ELSE BACKSPACE_SEQ]
                  ELSE MatchCh(ch)
         IN  [panic |-> r.panic, self |-> counted, out |-> r.out]

\* process_char(&mut self, ch).  `checks` is the build's overflow-checks
\* setting: with it, `self.echo_count += 1` panics at u64::MAX; without it the
\* counter wraps.  The result holds the panic (or "none"), the controller
\* after the call and the slice returned.
process_char(self, ch, checks) ==
    IF checks /\ self.echo_count = U64_MAX
    THEN [panic |-> "overflow", self |-> self, out |-> <<>>]
    ELSE LET counted == [self EXCEPT !.echo_count = WrappingInc(@)]
             r == IF ch = BACKSPACE \/ ch = DELETE
                  THEN [panic |-> "none", out |-> BACKSPACE_SEQ]
                  ELSE MatchCh(ch)
         IN  [panic |-> r.panic, self |-> counted, out |-> r.out]


(***************************************************************************)
(* Baud-rate configuration.  config.rs holds the default rate; the limits, *)
(* the clamp and the engine's rate field follow spec.md sections 3 and 4.1.*)
(***************************************************************************)
MIN_BAUD == 9600

MAX_BAUD == 921600

Min(a, b) == IF a <= b THEN a ELSE b

Max(a, b) == IF a >= b THEN a ELSE b

clampBaudRate(rate) == Max(MIN_BAUD, Min(rate, MAX_BAUD))

\* Rates requested of the engine: a window around each limit, the customary
\* rates, and values far outside the range.
Rates ==
    ((MIN_BAUD - BaudWindow)..(MIN_BAUD + BaudWindow))
    \cup ((MAX_BAUD - BaudWindow)..(MAX_BAUD + BaudWindow))
    \cup {0, 1, 100, 1200, 2400, 4800, 19200, 38400, 57600, UART_BAUD_RATE,
          230400, 460800, 10000000, 2147483647}

(***************************************************************************)
(* State.  An optional value is a sequence of length 0 or 1.               *)
(***************************************************************************)
VARIABLES
    overflow_checks, \* the build: TRUE when integer overflow panics
    ctrl,            \* SpecFn, SpecApi: slot -> optional UartController
    ctor,            \* how the slot's controller came to be
    call,            \* slot -> the last process_char call: ch, panic, out
    calls,           \* slot -> number of process_char calls that returned
    count0,          \* slot -> echo_count before the first of those calls
    got,             \* slot -> the last value echo_count() returned
    pc,              \* Spec: where main is: "read", "write" or "halted"
    controller,      \* main's controller
    buf,             \* main's buf[0]
    echo_char,       \* main's echo_char, once process_char has returned
    tx,              \* the buffers handed to uart.write, in order
    rets,            \* the slices process_char returned to main, in order
    reads_ok,        \* reads of main that returned Ok
    reads_failed,    \* reads of main that returned Err
    baud_rate,       \* the configured baud rate
    baud_req         \* the last rate requested of the engine, and how

vars ==
    <<overflow_checks, ctrl, ctor, call, calls, count0, got, pc, controller,
      buf, echo_char, tx, rets, reads_ok, reads_failed, baud_rate, baud_req>>

harness_vars == <<ctrl, ctor, call, calls, count0, got>>

main_vars ==
    <<pc, controller, buf, echo_char, tx, rets, reads_ok, reads_failed>>

baud_vars == <<baud_rate, baud_req>>

Slot == {1, 2}

(***************************************************************************)
(* The states each specification starts from.                              *)
(***************************************************************************)
\* No controller has been built in any slot.
HarnessIdle ==
    /\ ctrl = [i \in Slot |-> <<>>]
    /\ ctor = [i \in Slot |-> "none"]
    /\ call = [i \in Slot |-> <<>>]
    /\ calls = [i \in Slot |-> 0]
    /\ count0 = [i \in Slot |-> U64_ZERO]
    /\ got = [i \in Slot |-> <<>>]

\* main.rs up to `loop`: the controller is new, buf is [0u8; 1].
MainStart ==
    /\ pc = "read"
    /\ controller = new
    /\ buf = 0
    /\ echo_char = <<>>
    /\ tx = <<>>
    /\ rets = <<>>
    /\ reads_ok = 0
    /\ reads_failed = 0

\* config.baudrate = UART_BAUD_RATE
BaudStart ==
    /\ baud_rate = UART_BAUD_RATE
    /\ baud_req = <<>>

(***************************************************************************)
(* Spec: main.rs.  The loop suspends at the two awaits; an action runs     *)
(* from one to the next.                                                   *)
(***************************************************************************)
\* The argument of uart.write at main.rs:84, `&[echo_char]`: an array of one
\* element, the slice process_char returned.
WriteArg(echo) == [elem |-> "&[u8]", items |-> <<echo>>]

\* uart.read(&mut buf).await is Ok: buf[0] holds the byte, process_char runs,
\* and the loop goes on to the write.  A panic halts (panic_halt).
ReadOk(b) ==
    /\ pc = "read"
    /\ reads_ok + reads_failed < MaxReads
    /\ LET r == process_char(controller, b, overflow_checks)
       IN  /\ buf' = b
           /\ reads_ok' = reads_ok + 1
           /\ controller' = r.self
           /\ IF r.panic = "none"
              THEN /\ echo_char' = <<r.out>>
                   /\ rets' = Append(rets, r.out)
                   /\ pc' = "write"
              ELSE /\ pc' = "halted"
                   /\ UNCHANGED <<echo_char, rets>>
    /\ UNCHANGED <<tx, reads_failed>>
    /\ UNCHANGED <<overflow_checks, harness_vars, baud_vars>>

\* uart.read(&mut buf).await is Err: the body of the `if` is skipped.
ReadErr ==
    /\ pc = "read"
    /\ reads_ok + reads_failed < MaxReads
    /\ reads_failed' = reads_failed + 1
    /\ UNCHANGED <<pc, controller, buf, echo_char, tx, rets, reads_ok>>
    /\ UNCHANGED <<overflow_checks, harness_vars, baud_vars>>

\* let _ = uart.write(&[echo_char]).await; the result is discarded.
Write ==
    /\ pc = "write"
    /\ tx' = Append(tx, WriteArg(echo_char[1]))
    /\ pc' = "read"
    /\ UNCHANGED <<controller, buf, echo_char, rets, reads_ok, reads_failed>>
    /\ UNCHANGED <<overflow_checks, harness_vars, baud_vars>>

Init ==
    /\ overflow_checks \in BOOLEAN
    /\ MainStart
    /\ HarnessIdle
    /\ BaudStart

Next ==
    \/ \E b \in SampleBytes : ReadOk(b)
    \/ ReadErr
    \/ Write

Spec == Init /\ [][Next]_vars

(***************************************************************************)
(* The public API of UartController on the controller of a slot.           *)
(***************************************************************************)
\* The slot holds a controller and no call on it has panicked.
Alive(i) ==
    /\ ctrl[i] # <<>>
    /\ \A k \in 1..Len(call[i]) : call[i][k].panic = "none"

\* let ctrl = UartController::new();
New(i) ==
    /\ ctrl[i] = <<>>
    /\ ctrl' = [ctrl EXCEPT ![i] = <<new>>]
    /\ ctor' = [ctor EXCEPT ![i] = "new"]
    /\ count0' = [count0 EXCEPT ![i] = echo_count(new)]
    /\ UNCHANGED <<call, calls, got>>
    /\ UNCHANGED <<overflow_checks, main_vars, baud_vars>>

\* let ctrl = UartController::default();
Default(i) ==
    /\ ctrl[i] = <<>>
    /\ ctrl' = [ctrl EXCEPT ![i] = <<default>>]
    /\ ctor' = [ctor EXCEPT ![i] = "default"]
    /\ count0' = [count0 EXCEPT ![i] = echo_count(default)]
    /\ UNCHANGED <<call, calls, got>>
    /\ UNCHANGED <<overflow_checks, main_vars, baud_vars>>

\* ctrl.process_char(ch)
ProcessChar(i, ch) ==
    /\ Alive(i)
    /\ calls[i] < MaxCalls
    /\ LET r == process_char(ctrl[i][1], ch, overflow_checks)
       IN  /\ ctrl' = [ctrl EXCEPT ![i] = <<r.self>>]
           /\ call' = [call EXCEPT
                          ![i] = <<[ch |-> ch, panic |-> r.panic, out |-> r.out]>>]
           /\ calls' = [calls EXCEPT
                           ![i] = IF r.panic = "none" THEN @ + 1 ELSE @]
    /\ UNCHANGED <<ctor, count0, got>>
    /\ UNCHANGED <<overflow_checks, main_vars, baud_vars>>

\* ctrl.echo_count()
EchoCount(i) ==
    /\ Alive(i)
    /\ got' = [got EXCEPT ![i] = <<echo_count(ctrl[i][1])>>]
    /\ UNCHANGED <<ctrl, ctor, call, calls, count0>>
    /\ UNCHANGED <<overflow_checks, main_vars, baud_vars>>

(***************************************************************************)
(* SpecFn: process_char on a controller in any state.  The counter starts  *)
(* at values the program reaches after that many calls: the least, those   *)
(* around each carry between limbs, and the greatest.                      *)
(***************************************************************************)
CounterSamples ==
    {U64_ZERO,
     <<0, 0, 0, LimbBase - 1>>,
     <<0, LimbBase - 1, LimbBase - 1, LimbBase - 1>>,
     <<LimbBase - 1, LimbBase - 1, LimbBase - 1, LimbBase - 2>>,
     U64_MAX}

InitFn ==
    /\ overflow_checks \in BOOLEAN
    /\ \E c \in CounterSamples :
          /\ ctrl = [i \in Slot |-> IF i = 1 THEN <<[echo_count |-> c]>> ELSE <<>>]
          /\ count0 = [i \in Slot |-> IF i = 1 THEN c ELSE U64_ZERO]
    /\ ctor = [i \in Slot |-> IF i = 1 THEN "state" ELSE "none"]
    /\ call = [i \in Slot |-> <<>>]
    /\ calls = [i \in Slot |-> 0]
    /\ got = [i \in Slot |-> <<>>]
    /\ MainStart
    /\ BaudStart

NextFn == \E ch \in Byte : ProcessChar(1, ch)

SpecFn == InitFn /\ [][NextFn]_vars

(***************************************************************************)
(* SpecApi: two controllers, each built by either constructor and then     *)
(* driven by any interleaving of process_char and echo_count.              *)
(***************************************************************************)
InitApi ==
    /\ overflow_checks \in BOOLEAN
    /\ HarnessIdle
    /\ MainStart
    /\ BaudStart

NextApi ==
    \E i \in Slot :
        \/ New(i)
        \/ Default(i)
        \/ EchoCount(i)
        \/ \E ch \in SampleBytes : ProcessChar(i, ch)

SpecApi == InitApi /\ [][NextApi]_vars

(***************************************************************************)
(* SpecBaud: the engine's baud rate, set at construction and by the setter.*)
(***************************************************************************)
\* create(): the default rate
Create ==
    /\ baud_rate' = UART_BAUD_RATE
    /\ baud_req' = <<>>
    /\ UNCHANGED <<overflow_checks, harness_vars, main_vars>>

\* createWithBaudRate(rate)
CreateWithBaudRate(rate) ==
    /\ baud_rate' = clampBaudRate(rate)
    /\ baud_req' = <<[op |-> "create", rate |-> rate]>>
    /\ UNCHANGED <<overflow_checks, harness_vars, main_vars>>

\* setBaudRate(rate)
SetBaudRate(rate) ==
    /\ baud_rate' = clampBaudRate(rate)
    /\ baud_req' = <<[op |-> "set", rate |-> rate]>>
    /\ UNCHANGED <<overflow_checks, harness_vars, main_vars>>

InitBaud ==
    /\ overflow_checks = FALSE
    /\ HarnessIdle
    /\ MainStart
    /\ BaudStart

NextBaud ==
    \/ Create
    \/ \E rate \in Rates : CreateWithBaudRate(rate)
    \/ \E rate \in Rates : SetBaudRate(rate)

SpecBaud == InitBaud /\ [][NextBaud]_vars


(***************************************************************************)
(* The properties.                                                         *)
(***************************************************************************)
\* The process_char calls of the harness that returned.
ReturnedCalls ==
    {call[i][1] : i \in {j \in Slot : call[j] # <<>> /\ call[j][1].panic = "none"}}

\* The bytes the specification echoes unchanged: letters, digits, the
\* punctuation it lists, newline, carriage return and tab.
EchoedSet ==
    (65..90) \cup (97..122) \cup (48..57)
    \cup (32..47) \cup (58..64) \cup (91..96) \cup (123..126)
    \cup {10, 13, 9}

\* The bytes the specification drops: 0x00-0x07, 0x0B-0x0C, 0x0E-0x1F and
\* 0x80-0xFF.
DroppedSet == (0..7) \cup (11..12) \cup (14..31) \cup (128..255)

\* C1: in every controller state, process_char(0x08) and process_char(0x7F)
\* return exactly [0x08, 0x20, 0x08], and no other byte gets a 3-byte output.
C1_EraseSequence ==
    \A c \in ReturnedCalls :
        /\ c.ch \in {8, 127} => c.out = <<8, 32, 8>>
        /\ Len(c.out) = 3 => c.ch \in {8, 127}

\* A delete answered with the erase sequence by a controller whose counter
\* started at the greatest value.
C1_Witness ==
    /\ call[1] # <<>>
    /\ call[1][1].ch = 127
    /\ call[1][1].out = <<8, 32, 8>>
    /\ count0[1] = U64_MAX

\* C2: for every letter, digit, listed punctuation character, newline,
\* carriage return and tab, process_char(b) returns the one byte [b].
C2_IdentityEcho ==
    \A c \in ReturnedCalls : c.ch \in EchoedSet => c.out = <<c.ch>>

\* The apostrophe echoed as itself.
C2_Witness ==
    /\ call[1] # <<>>
    /\ call[1][1].ch = 39
    /\ call[1][1].panic = "none"
    /\ call[1][1].out = <<39>>

\* C3: process_char(b) returns the empty sequence exactly for the bytes that
\* are neither backspace, delete nor echoed, which are 0x00-0x07, 0x0B-0x0C,
\* 0x0E-0x1F and 0x80-0xFF.
C3_DropOthers ==
    /\ DroppedSet = Byte \ ({8, 127} \cup EchoedSet)
    /\ \A c \in ReturnedCalls : c.ch \in DroppedSet <=> c.out = <<>>

\* 0xFF dropped, after a first call that echoed.
C3_Witness ==
    /\ call[1] # <<>>
    /\ call[1][1].ch = 255
    /\ call[1][1].panic = "none"
    /\ call[1][1].out = <<>>
    /\ calls[1] = 2

\* A u64 and a count of calls as unbounded naturals: five limbs.
Wide(x) == <<0>> \o x

RECURSIVE AddAt(_, _, _)
AddAt(w, i, k) ==
    IF k = 0 \/ i = 0
    THEN w
    ELSE LET sum == w[i] + k
         IN  AddAt([w EXCEPT ![i] = sum % LimbBase], i - 1, sum \div LimbBase)

\* x + n over the naturals
MathAdd(x, n) == AddAt(Wide(x), 5, n)

\* C4: after n calls of process_char, echo_count() is its value before the
\* calls plus n; the counter never decreases and is never reset.
C4_CountIsCalls ==
    \A i \in Slot :
        ctrl[i] # <<>> =>
            Wide(echo_count(ctrl[i][1])) = MathAdd(count0[i], calls[i])

\* C5: process_char returns, without error or panic, for every byte and every
\* value of the 64-bit counter.
C5_NeverPanics ==
    \A i \in Slot : \A k \in 1..Len(call[i]) : call[i][k].panic = "none"

\* C6: the loop calls process_char once per successful read and never on a
\* failed one, hands uart.write exactly the bytes process_char returned before
\* the next read, and so at every read echo_count is the number of successful
\* reads and the transmitted stream is the returned sequences in order.
C6_LoopForwardsVerbatim ==
    /\ Len(rets) = reads_ok
    /\ pc = "read" => echo_count(controller) = <<0, 0, 0, reads_ok>>
    /\ pc = "read" => Len(tx) = Len(rets)
    /\ \A k \in 1..Len(tx) : tx[k].elem = "u8" /\ tx[k].items = rets[k]

\* C7: new() and default() build equal controllers whose echo_count() is 0
\* before any process_char call, and echo_count() leaves the controller as
\* it was.
C7_ConstructedAtZero ==
    /\ [](/\ \A i \in Slot :
                ctrl[i] # <<>> /\ call[i] = <<>> => echo_count(ctrl[i][1]) = U64_ZERO
          /\ \A i \in Slot :
                got[i] # <<>> /\ call[i] = <<>> => got[i] = <<U64_ZERO>>
          /\ \A i, j \in Slot :
                (/\ ctor[i] = "new"
                 /\ ctor[j] = "default"
                 /\ call[i] = <<>>
                 /\ call[j] = <<>>) => ctrl[i] = ctrl[j])
    /\ [][got' # got => ctrl' = ctrl]_vars

\* One controller from each constructor, both asked their count before any
\* call.
C7_Witness ==
    /\ ctor[1] = "new"
    /\ ctor[2] = "default"
    /\ call[1] = <<>>
    /\ call[2] = <<>>
    /\ got[1] = <<U64_ZERO>>
    /\ got[2] = <<U64_ZERO>>

\* C8: the configured baud rate is always within [9600, 921600]; construction
\* with a rate and setBaudRate store 9600 for a rate below 9600, 921600 for a
\* rate above 921600 and the rate otherwise, clamping is idempotent, and the
\* default rate lies strictly between the limits.
C8_BaudRateClamped ==
    /\ 9600 <= baud_rate /\ baud_rate <= 921600
    /\ \A k \in 1..Len(baud_req) :
          LET r == baud_req[k].rate
          IN  /\ r < 9600 => baud_rate = 9600
              /\ r > 921600 => baud_rate = 921600
              /\ 9600 <= r /\ r <= 921600 => baud_rate = r
              /\ clampBaudRate(clampBaudRate(r)) = clampBaudRate(r)
    /\ 9600 < UART_BAUD_RATE /\ UART_BAUD_RATE < 921600

\* The setter asked for a rate above the upper limit.
C8_Witness ==
    /\ baud_req # <<>>
    /\ baud_req[1].op = "set"
    /\ baud_req[1].rate = 10000000
    /\ baud_rate = 921600

\* C9: two controllers with different counters, reached by different calls,
\* return the same sequence for the same byte; the counter is the only state
\* a controller keeps.
C9_HistoryIndependent ==
    /\ \A c, d \in ReturnedCalls : c.ch = d.ch => c.out = d.out
    /\ \A i \in Slot : ctrl[i] # <<>> => DOMAIN ctrl[i][1] = {"echo_count"}

\* The same backspace given to a controller on its first call and to one on
\* its second.
C9_Witness ==
    /\ calls[1] = 1
    /\ calls[2] = 2
    /\ echo_count(ctrl[1][1]) # echo_count(ctrl[2][1])
    /\ call[1][1].ch = 8
    /\ call[2][1].ch = 8
    /\ call[1][1].out = call[2][1].out

\* C10: every letter and digit is in the 62-entry CHARS table exactly once, so
\* for such a byte the lookup does not panic, the index found satisfies
\* idx + 1 <= 62 and the slice returned holds the byte.
C10_TableLookup ==
    /\ Len(CHARS) = 62
    /\ \A b \in (65..90) \cup (97..122) \cup (48..57) :
          Cardinality({i \in 1..Len(CHARS) : CHARS[i] = b}) = 1
    /\ \A i \in Slot : \A k \in 1..Len(call[i]) :
          LET c == call[i][k]
          IN  c.ch \in (65..90) \cup (97..122) \cup (48..57) =>
                  /\ c.panic \notin {"unwrap", "slice"}
                  /\ Position(CHARS, c.ch).some
                  /\ Position(CHARS, c.ch).idx + 1 <= 62
                  /\ c.panic = "none" => c.out = <<c.ch>>

\* b'9', the last entry of the table, looked up and returned.
C10_Witness ==
    /\ call[1] # <<>>
    /\ call[1][1].ch = 57
    /\ call[1][1].panic = "none"
    /\ Position(CHARS, 57).idx = 61
    /\ call[1][1].out = <<57>>

====
